---- MODULE Spec2Model ----
(***************************************************************************)
(* Model of speech-chatbot-pro: the retrieval matcher of chatbot.py        *)
(* (parse_qa, simple_analyzer, SimpleChatbot) and the voice-mode button    *)
(* state machine of app.py.                                                *)
(*                                                                         *)
(* Text is a sequence of one-character strings, so strip, lower,           *)
(* startswith, splitlines and the two regular expressions are computed on  *)
(* characters as the code computes them.  Optional values (None or a       *)
(* string) are records [some, v].                                          *)
(***************************************************************************)
EXTENDS Integers, Sequences, FiniteSets, TLC

VARIABLES
    \* ---- chatbot.py: one SimpleChatbot object and its last reply call
    corpus_text,  \* argument of SimpleChatbot.__init__ (optional string)
    status,       \* "init" | "ok" (constructed) | "raised" (__init__ raised)
    mode,         \* self.mode: "qa" | "sentences" | "unset"
    questions,    \* self.questions
    answers,      \* self.answers
    sentences,    \* self.sentences
    vocabulary,   \* self.vectorizer.vocabulary_ (set of tokens)
    idf,          \* self.vectorizer.idf_ (token -> weight, 1/100ths)
    q_matrix,     \* self.q_matrix (row i: token -> tf*idf weight)
    user_text,    \* argument of the last reply call (optional string)
    result,       \* what the last reply call returned (string) or raised
    idx,          \* idx of the last reply call (0-based; -1 when not scored)
    sims,         \* sims of the last reply call (1/1000ths; <<>> when not scored)
    scored,       \* TRUE iff the last reply call ran transform/cosine_similarity
    calls,        \* number of reply calls made on the object
    \* ---- chatbot.py: one call of parse_qa, line by line
    p_text,       \* argument corpus_text of parse_qa (optional string)
    p_raws,       \* the list (corpus_text or "").splitlines() the loop walks
    p_pos,        \* number of raw lines the for loop has consumed
    p_prev,       \* questions, answers, q, a before the last iteration
    p_state,      \* questions, answers, q, a now
    p_out,        \* the returned (questions, answers), once returned
    \* ---- app.py: st.session_state and what the last script run rendered
    is_listening, \* st.session_state.is_listening
    is_paused,    \* st.session_state.is_paused
    transcript,   \* st.session_state.transcript (sequence of heard chunks)
    history_len,  \* len(st.session_state.history)
    input_mode,   \* the radio: "Text" | "Voice"
    enabled,      \* buttons the last run rendered enabled (subset of Buttons)
    captured      \* TRUE iff the last run called transcribe_chunk

botvars == <<corpus_text, status, mode, questions, answers, sentences,
             vocabulary, idf, q_matrix>>
replyvars == <<user_text, result, idx, sims, scored, calls>>
parsevars == <<p_text, p_raws, p_pos, p_prev, p_state, p_out>>
appvars == <<is_listening, is_paused, transcript, history_len, input_mode,
             enabled, captured>>
vars == <<botvars, replyvars, parsevars, appvars>>

-----------------------------------------------------------------------------
(* Optional values.                                                        *)

None == [some |-> FALSE, v |-> <<>>]
Some(s) == [some |-> TRUE, v |-> s]

\* Python truthiness of an optional string: None and "" are falsy.
Truthy(o) == o.some /\ o.v # <<>>

\* (o or d)
OrElse(o, d) == IF Truthy(o) THEN o.v ELSE d

-----------------------------------------------------------------------------
(* Characters and strings.                                                 *)

UpperChars == <<"A","B","C","D","E","F","G","H","I","J","K","L","M",
                "N","O","P","Q","R","S","T","U","V","W","X","Y","Z">>
LowerChars == <<"a","b","c","d","e","f","g","h","i","j","k","l","m",
                "n","o","p","q","r","s","t","u","v","w","x","y","z">>
DigitChars == {"0","1","2","3","4","5","6","7","8","9"}

Range(f) == {f[i] : i \in DOMAIN f}

\* str.isspace for one character
IsSpace(c) == c \in {" ", "\n", "\t", "\r"}

UpperSet == Range(UpperChars)
WordChars == UpperSet \cup Range(LowerChars) \cup DigitChars \cup {"_"}

\* the regular expression class \w
IsWord(c) == c \in WordChars

LowerChar(c) ==
    IF c \in UpperSet
    THEN LowerChars[CHOOSE i \in DOMAIN UpperChars : UpperChars[i] = c]
    ELSE c

\* str.lower
Lower(s) == [i \in DOMAIN s |-> LowerChar(s[i])]

RECURSIVE LStrip(_)
LStrip(s) == IF s # <<>> /\ IsSpace(Head(s)) THEN LStrip(Tail(s)) ELSE s

RECURSIVE RStrip(_)
RStrip(s) ==
    IF s # <<>> /\ IsSpace(s[Len(s)]) THEN RStrip(SubSeq(s, 1, Len(s) - 1)) ELSE s

\* str.strip
Strip(s) == RStrip(LStrip(s))

\* str.startswith
StartsWith(s, p) == Len(s) >= Len(p) /\ SubSeq(s, 1, Len(p)) = p

\* s[2:]
From2(s) == SubSeq(s, 3, Len(s))

\* str.splitlines, for the line boundary "\n": no empty last line
RECURSIVE SplitLinesFrom(_, _)
SplitLinesFrom(s, cur) ==
    IF s = <<>> THEN (IF cur = <<>> THEN <<>> ELSE <<cur>>)
    ELSE IF Head(s) = "\n" THEN <<cur>> \o SplitLinesFrom(Tail(s), <<>>)
    ELSE SplitLinesFrom(Tail(s), Append(cur, Head(s)))

SplitLines(s) == SplitLinesFrom(s, <<>>)

-----------------------------------------------------------------------------
(* chatbot.py: simple_analyzer                                             *)

\* re.findall(r"\b\w+\b", t): the maximal runs of word characters
RECURSIVE FindWords(_, _)
FindWords(s, cur) ==
    IF s = <<>> THEN (IF cur = <<>> THEN <<>> ELSE <<cur>>)
    ELSE IF IsWord(Head(s)) THEN FindWords(Tail(s), Append(cur, Head(s)))
    ELSE (IF cur = <<>> THEN <<>> ELSE <<cur>>) \o FindWords(Tail(s), <<>>)

simple_analyzer(text) == IF text = <<>> THEN <<>> ELSE FindWords(Lower(text), <<>>)

-----------------------------------------------------------------------------
(* chatbot.py: parse_qa                                                    *)

IsQLine(line) == StartsWith(Lower(line), <<"q", ":">>)
IsALine(line) == StartsWith(Lower(line), <<"a", ":">>)

\* the state of the loop: the two output lists and the pending q and a
ParseInit == [questions |-> <<>>, answers |-> <<>>, q |-> None, a |-> None]

\* "if q is not None and a is not None: append both"
Commit(st) ==
    IF st.q.some /\ st.a.some
    THEN [st EXCEPT !.questions = Append(@, st.q.v), !.answers = Append(@, st.a.v)]
    ELSE st

\* variant of ParseQLine that keeps the pending answer ("a = None" left out)
ParseQLineKeepsAnswer(st, line) == [Commit(st) EXCEPT !.q = Some(Strip(From2(line)))]

\* the branch of a line starting with q: (commit, open a new question, drop a)
ParseQLine(st, line) == [Commit(st) EXCEPT !.q = Some(Strip(From2(line))), !.a = None]

\* the branch of a line starting with a:
ParseALine(st, line) == [st EXCEPT !.a = Some(Strip(From2(line)))]

\* variant of ParseOther that tests the open question before the open answer
ParseOtherQuestionFirst(st, line) ==
    IF st.q.some THEN [st EXCEPT !.q = Some(st.q.v \o <<" ">> \o line)]
    ELSE IF st.a.some THEN [st EXCEPT !.a = Some(st.a.v \o <<" ">> \o line)]
    ELSE st

\* the else branch: a continuation line
ParseOther(st, line) ==
    IF st.a.some THEN [st EXCEPT !.a = Some(st.a.v \o <<" ">> \o line)]
    ELSE IF st.q.some THEN [st EXCEPT !.q = Some(st.q.v \o <<" ">> \o line)]
    ELSE st

\* one iteration of the for loop on the raw line
ParseStep(st, raw) ==
    LET line == Strip(raw) IN
    IF line = <<>> THEN st
    ELSE IF IsQLine(line) THEN ParseQLine(st, line)
    ELSE IF IsALine(line) THEN ParseALine(st, line)
    ELSE ParseOther(st, line)

\* (corpus_text or "").splitlines()
RawLines(ctext) == SplitLines(OrElse(ctext, <<>>))

\* the loop state after the first k raw lines
RECURSIVE ParseLoop(_, _)
ParseLoop(raws, k) ==
    IF k = 0 THEN ParseInit ELSE ParseStep(ParseLoop(raws, k - 1), raws[k])

parse_qa(ctext) ==
    LET raws == RawLines(ctext)
        fin == Commit(ParseLoop(raws, Len(raws)))
    IN  <<fin.questions, fin.answers>>

-----------------------------------------------------------------------------
(* chatbot.py: SimpleChatbot._split_sentences                              *)

\* re.sub(r"\s+", " ", s)
RECURSIVE CollapseSpaces(_)
CollapseSpaces(s) ==
    IF s = <<>> THEN <<>>
    ELSE IF IsSpace(Head(s)) THEN <<" ">> \o CollapseSpaces(LStrip(s))
    ELSE <<Head(s)>> \o CollapseSpaces(Tail(s))

IsTerminator(c) == c \in {".", "!", "?"}

\* re.split(r"(?<=[.!?])\s+", s): cut at a whitespace run that follows . ! ?
RECURSIVE SplitAfterTerminator(_, _)
SplitAfterTerminator(s, cur) ==
    IF s = <<>> THEN <<cur>>
    ELSE IF IsSpace(Head(s)) /\ cur # <<>> /\ IsTerminator(cur[Len(cur)])
    THEN <<cur>> \o SplitAfterTerminator(LStrip(s), <<>>)
    ELSE SplitAfterTerminator(Tail(s), Append(cur, Head(s)))

_split_sentences(text) ==
    LET t == CollapseSpaces(Strip(text)) IN
    IF t = <<>> THEN <<>>
    ELSE SelectSeq(SplitAfterTerminator(t, <<>>), LAMBDA p : p # <<>>)

-----------------------------------------------------------------------------
(* sklearn as chatbot.py uses it: TfidfVectorizer(analyzer=simple_analyzer) *)
(* with its defaults (raw term counts, smooth idf, l2 norm) and             *)
(* cosine_similarity.  Weights are fixed-point: idf in 1/100ths, a          *)
(* similarity in 1/1000ths.  The l2 normalisation of the rows is left to    *)
(* the cosine, which normalises again and is unchanged by it.               *)

\* 100 * ln(k), rounded, for k = 1 .. 12
LnCenti == <<0, 69, 110, 139, 161, 179, 195, 208, 220, 230, 240, 248>>

\* smooth idf: ln((1 + n) / (1 + df)) + 1
Idf(n, df) == LnCenti[1 + n] - LnCenti[1 + df] + 100

\* number of occurrences of tok in a token list
Count(tok, toks) == Cardinality({i \in DOMAIN toks : toks[i] = tok})

\* the tokens of every item
Vocabulary(items) == UNION {Range(simple_analyzer(items[i])) : i \in DOMAIN items}

\* number of items that contain tok
DocFreq(tok, items) ==
    Cardinality({i \in DOMAIN items : tok \in Range(simple_analyzer(items[i]))})

\* vectorizer.idf_ after fit
FitIdf(items) == [t \in Vocabulary(items) |-> Idf(Len(items), DocFreq(t, items))]

\* one row of the term matrix: tf * idf over the fitted vocabulary
RECURSIVE WeighTokens(_, _, _)
WeighTokens(S, toks, weights) ==
    IF S = {} THEN <<>>
    ELSE LET t == CHOOSE t \in S : TRUE IN
         (t :> Count(t, toks) * weights[t]) @@ WeighTokens(S \ {t}, toks, weights)

TfidfRow(text, weights) == WeighTokens(DOMAIN weights, simple_analyzer(text), weights)

\* vectorizer.fit_transform(items): raises ValueError on an empty vocabulary
fit_transform(items) ==
    IF Vocabulary(items) = {}
    THEN [raised |-> TRUE, vocabulary |-> {}, idf |-> <<>>, matrix |-> <<>>]
    ELSE [raised |-> FALSE,
          vocabulary |-> Vocabulary(items),
          idf |-> FitIdf(items),
          matrix |-> [i \in DOMAIN items |-> TfidfRow(items[i], FitIdf(items))]]

\* vectorizer.transform([text]): the fitted vocabulary and idf, unseen tokens dropped
transform(text, weights) == TfidfRow(text, weights)

RECURSIVE SumOver(_, _)
SumOver(S, f) ==
    IF S = {} THEN 0
    ELSE LET t == CHOOSE t \in S : TRUE IN f[t] + SumOver(S \ {t}, f)

Dot(u, d) ==
    LET common == DOMAIN u \cap DOMAIN d IN
    SumOver(common, [t \in common |-> u[t] * d[t]])

\* floor of the square root
RECURSIVE IsqrtIn(_, _, _)
IsqrtIn(n, lo, hi) ==
    IF lo >= hi THEN lo
    ELSE LET mid == (lo + hi + 1) \div 2 IN
         IF mid * mid <= n THEN IsqrtIn(n, mid, hi) ELSE IsqrtIn(n, lo, mid - 1)

\* (the argument is evaluated once, by binding it as a set element)
Isqrt(n) ==
    CHOOSE r \in {IsqrtIn(m, 0, IF m < 40000 THEN 200 ELSE 40000) : m \in {n}} : TRUE

\* variant of Cosine without the zero-row rule: 0/0 is not a number, which
\* np.argmax ranks first and "score < 0.10" does not reject
CosineUnguarded(u, d) ==
    LET nu == Isqrt(Dot(u, u))
        nd == Isqrt(Dot(d, d))
    IN  IF nu = 0 \/ nd = 0 THEN 1000 ELSE (Dot(u, d) * 1000) \div (nu * nd)

\* cosine of two rows in 1/1000ths; a zero row has similarity 0 with anything
Cosine(u, d) ==
    LET nu == Isqrt(Dot(u, u))
        nd == Isqrt(Dot(d, d))
    IN  IF nu = 0 \/ nd = 0 THEN 0 ELSE (Dot(u, d) * 1000) \div (nu * nd)

RECURSIVE CosineRows(_, _, _)
CosineRows(u, matrix, i) ==
    IF i > Len(matrix) THEN <<>>
    ELSE <<Cosine(u, matrix[i])>> \o CosineRows(u, matrix, i + 1)

\* cosine_similarity(user_vec, q_matrix).flatten()
cosine_similarity(u, matrix) == CosineRows(u, matrix, 1)

\* np.argmax: scan left to right, replace the best only by a strictly larger value
RECURSIVE ArgmaxScan(_, _, _)
ArgmaxScan(s, i, best) ==
    IF i > Len(s) THEN best
    ELSE ArgmaxScan(s, i + 1, IF s[i] > s[best] THEN i ELSE best)

\* variant of np.argmax that keeps the last maximum
RECURSIVE ArgmaxLastScan(_, _, _)
ArgmaxLastScan(s, i, best) ==
    IF i > Len(s) THEN best
    ELSE ArgmaxLastScan(s, i + 1, IF s[i] >= s[best] THEN i ELSE best)

argmaxLast(s) == ArgmaxLastScan(s, 2, 1) - 1

\* 0-based index of the first maximum (the scores are never empty here)
argmax(s) == ArgmaxScan(s, 2, 1) - 1

-----------------------------------------------------------------------------
(* chatbot.py: class SimpleChatbot                                         *)

\* "I have no data yet."
Placeholder ==
    <<"I"," ","h","a","v","e"," ","n","o"," ","d","a",
    "t","a"," ","y","e","t",".">>

\* "Say something and I'll try to help!"
EmptyInputMessage ==
    <<"S","a","y"," ","s","o","m","e","t","h","i","n",
    "g"," ","a","n","d"," ","I","'","l","l"," ","t",
    "r","y"," ","t","o"," ","h","e","l","p","!">>

\* "I'm not sure I understood. Could you rephrase?"
LowConfidenceMessage ==
    <<"I","'","m"," ","n","o","t"," ","s","u","r","e",
    " ","I"," ","u","n","d","e","r","s","t","o","o",
    "d","."," ","C","o","u","l","d"," ","y","o","u",
    " ","r","e","p","h","r","a","s","e","?">>

\* the confidence floor 0.10, in 1/1000ths
Threshold == 100

\* __init__, as the attribute values it leaves behind and whether it raised
Build(ctext) ==
    LET pq == parse_qa(ctext)
        qs == pq[1]
        ans == pq[2]
    IN  IF qs # <<>> /\ ans # <<>> /\ Len(qs) = Len(ans)
        THEN LET fit == fit_transform(qs) IN
             [raised |-> fit.raised,
              mode |-> IF fit.raised THEN "unset" ELSE "qa",
              questions |-> qs, answers |-> ans, sentences |-> <<>>,
              vocabulary |-> fit.vocabulary, idf |-> fit.idf, q_matrix |-> fit.matrix]
        ELSE LET split == _split_sentences(OrElse(ctext, <<>>))
                 sents == IF split = <<>>
                          THEN <<Strip(OrElse(ctext, Placeholder))>>
                          ELSE split
                 fit == fit_transform(sents)
             IN  [raised |-> fit.raised,
                  mode |-> "sentences",
                  questions |-> <<>>, answers |-> <<>>, sentences |-> sents,
                  vocabulary |-> fit.vocabulary, idf |-> fit.idf, q_matrix |-> fit.matrix]

\* the list reply indexes: self.answers or self.sentences
Payloads(m, ans, sents) == IF m = "qa" THEN ans ELSE sents

\* variant of Index that reads the 0-based i as 1-based
IndexOneBased(list, i) ==
    IF i \in DOMAIN list
    THEN [kind |-> "return", v |-> list[i]]
    ELSE [kind |-> "raise", v |-> <<>>]

\* list[i] for a 0-based i: the element, or IndexError
Index(list, i) ==
    IF i + 1 \in DOMAIN list
    THEN [kind |-> "return", v |-> list[i + 1]]
    ELSE [kind |-> "raise", v |-> <<>>]

\* variant of Trimmed without the strip
Untrimmed(utext) == OrElse(utext, <<>>)

\* user_text = (user_text or "").strip()
Trimmed(utext) == Strip(OrElse(utext, <<>>))

\* reply on a matcher with the given attributes: what it returns or raises,
\* and the locals sims and idx it computed
ReplyOn(m, ans, sents, weights, matrix, utext) ==
    LET text == Trimmed(utext) IN
    IF text = <<>>
    THEN [out |-> [kind |-> "return", v |-> EmptyInputMessage],
          scored |-> FALSE, sims |-> <<>>, idx |-> -1]
    ELSE LET user_vec == transform(text, weights)
             sc == cosine_similarity(user_vec, matrix)
             i == argmax(sc)
         IN  [out |-> IF sc[i + 1] < Threshold
                      THEN [kind |-> "return", v |-> LowConfidenceMessage]
                      ELSE Index(Payloads(m, ans, sents), i),
              scored |-> TRUE, sims |-> sc, idx |-> i]

\* variant of the vectorizer after transform that learns the query's tokens
VectorizerRefitted(vocab, weights, utext) ==
    LET new == Range(simple_analyzer(Strip(OrElse(utext, <<>>)))) \ vocab IN
    [vocabulary |-> vocab \cup new,
     idf |-> [t \in vocab \cup new |-> IF t \in vocab THEN weights[t] ELSE Idf(1, 1)]]

\* the vectorizer after transform: transform fits nothing
VectorizerAfterTransform(vocab, weights, utext) ==
    [vocabulary |-> vocab, idf |-> weights]

-----------------------------------------------------------------------------
(* Inputs.                                                                 *)

\* longest corpus of the matcher, in fragments
MaxParts == 3
\* longest corpus of parse_qa, in lines
MaxLines == 4
\* reply calls made on one matcher
MaxCalls == 2

\* "p1\np2\n...\npk" for every choice of exactly k parts (k >= 1)
RECURSIVE JoinedExactly(_, _)
JoinedExactly(choices, k) ==
    IF k = 1 THEN choices
    ELSE {p \o <<"\n">> \o c : p \in JoinedExactly(choices, k - 1), c \in choices}

\* every text of at most n parts, the empty text included
JoinedUpTo(choices, n) == {<<>>} \cup UNION {JoinedExactly(choices, k) : k \in 1..n}

\* corpus fragments of the matcher: three Q/A pairs (two with the same
\* question token, one of two tokens), a question without a word token,
\* prose of two sentences, a blank line, a bare word, bare punctuation
FragmentChoices ==
    { <<"Q",":"," ","x","\n","A",":"," ","u">>,
      <<"q",":","X","\n","a",":","v">>,
      <<"Q",":"," ","y"," ","x","\n","A",":"," ","w">>,
      <<"Q",":"," ","?","\n","A",":"," ","w">>,
      <<"x","."," ","y","!">>,
      <<" ">>,
      <<"y">>,
      <<"?">> }

\* corpus lines of parse_qa: Q: and A: lines in both letter cases, with and
\* without a space, a continuation line, a blank line
LineChoices ==
    { <<"Q",":"," ","x">>,
      <<"q",":","y">>,
      <<"A",":"," ","u">>,
      <<" ","a",":","v"," ">>,
      <<"w"," ","z">>,
      <<" ">> }

Corpora == {None} \cup {Some(c) : c \in JoinedUpTo(FragmentChoices, MaxParts)}
ParseCorpora == {None} \cup {Some(c) : c \in JoinedUpTo(LineChoices, MaxLines)}

\* user texts: None, empty, blank, a known word that needs strip and lower,
\* another known word, both, an unknown word, a known and an unknown word
UserTexts ==
    { None, Some(<<>>), Some(<<" ">>),
      Some(<<" ","X","?"," ">>), Some(<<"y">>), Some(<<"x"," ","y">>),
      Some(<<"z">>), Some(<<"x"," ","z">>) }

-----------------------------------------------------------------------------
(* The matcher: construct once, then reply.                                *)

NoResult == [kind |-> "none", v |-> <<>>]

BotInit ==
    /\ corpus_text = None
    /\ status = "init"
    /\ mode = "unset"
    /\ questions = <<>>
    /\ answers = <<>>
    /\ sentences = <<>>
    /\ vocabulary = {}
    /\ idf = <<>>
    /\ q_matrix = <<>>

ReplyInit ==
    /\ user_text = None
    /\ result = NoResult
    /\ idx = -1
    /\ sims = <<>>
    /\ scored = FALSE
    /\ calls = 0

\* bot = SimpleChatbot(c)
Construct(c) ==
    /\ status = "init"
    /\ \E b \in {Build(c)} :
       /\ corpus_text' = c
       /\ status' = IF b.raised THEN "raised" ELSE "ok"
       /\ mode' = b.mode
       /\ questions' = b.questions
       /\ answers' = b.answers
       /\ sentences' = b.sentences
       /\ vocabulary' = b.vocabulary
       /\ idf' = b.idf
       /\ q_matrix' = b.q_matrix
    /\ UNCHANGED <<replyvars, parsevars, appvars>>

\* bot.reply(u)
Reply(u) ==
    /\ status = "ok"
    /\ calls < MaxCalls
    /\ \E r \in {ReplyOn(mode, answers, sentences, idf, q_matrix, u)},
          vz \in {VectorizerAfterTransform(vocabulary, idf, u)} :
           /\ user_text' = u
           /\ result' = r.out
           /\ idx' = r.idx
           /\ sims' = r.sims
           /\ scored' = r.scored
           /\ vocabulary' = vz.vocabulary
           /\ idf' = vz.idf
    /\ calls' = calls + 1
    /\ UNCHANGED <<corpus_text, status, mode, questions, answers, sentences, q_matrix>>
    /\ UNCHANGED <<parsevars, appvars>>

Next ==
    \/ \E c \in Corpora : Construct(c)
    \/ \E u \in UserTexts : Reply(u)

-----------------------------------------------------------------------------
(* parse_qa, one loop iteration at a time.                                 *)

NotReturned == [done |-> FALSE, questions |-> <<>>, answers |-> <<>>]

ParseIdle ==
    /\ p_text = None
    /\ p_raws = <<>>
    /\ p_pos = 0
    /\ p_prev = ParseInit
    /\ p_state = ParseInit
    /\ p_out = NotReturned

\* one iteration of "for raw in ...splitlines()"
ParseLine ==
    /\ ~p_out.done
    /\ p_pos < Len(p_raws)
    /\ p_prev' = p_state
    /\ p_state' = ParseStep(p_state, p_raws[p_pos + 1])
    /\ p_pos' = p_pos + 1
    /\ UNCHANGED <<p_text, p_raws, p_out>>
    /\ UNCHANGED <<botvars, replyvars, appvars>>

\* the commit after the loop and the return
ParseReturn ==
    /\ ~p_out.done
    /\ p_pos = Len(p_raws)
    /\ LET fin == Commit(p_state) IN
       p_out' = [done |-> TRUE, questions |-> fin.questions, answers |-> fin.answers]
    /\ UNCHANGED <<p_text, p_raws, p_pos, p_prev, p_state>>
    /\ UNCHANGED <<botvars, replyvars, appvars>>

NextParse == ParseLine \/ ParseReturn

-----------------------------------------------------------------------------
(* app.py: the script runs of the front end.  One action is one run of     *)
(* the script from top to bottom; the reply text appended to the history   *)
(* is not part of this state, only the history's length is.                *)

\* chunks kept in the transcript
MaxChunks == 3
\* messages kept in the history
MaxHistory == 6

Buttons == {"start", "pause", "resume", "stop"}

\* what transcribe_chunk can do: return a text, return "", raise
HeardChoices == {"hello", "hours", "", "error"}

\* the buttons a run renders enabled, from session_state as the run finds it
Rendered(listening, paused) ==
    {b \in Buttons :
        \/ b = "start" /\ ~(listening /\ ~paused)
        \/ b = "pause" /\ ~(~listening \/ paused)
        \/ b = "resume" /\ paused
        \/ b = "stop" /\ listening}

\* "Handle state transitions": the four ifs in their order, one button true
AfterClick(listening, paused, click) ==
    LET s1 == IF click = "start" THEN <<TRUE, FALSE>> ELSE <<listening, paused>>
        s2 == IF click = "pause" THEN <<s1[1], TRUE>> ELSE s1
        s3 == IF click = "resume" THEN <<s2[1], FALSE>> ELSE s2
        s4 == IF click = "stop" THEN <<FALSE, FALSE>> ELSE s3
    IN  s4

AppInit ==
    /\ is_listening = FALSE
    /\ is_paused = FALSE
    /\ transcript = <<>>
    /\ history_len = 0
    /\ input_mode = "Text"
    /\ enabled = {}
    /\ captured = FALSE

\* a run with the radio on "Text"; prompted: the chat input was submitted,
\* which only a page rendered in text mode offers
RunText(prompted) ==
    /\ prompted => input_mode = "Text" /\ history_len + 2 <= MaxHistory
    /\ input_mode' = "Text"
    /\ history_len' = IF prompted THEN history_len + 2 ELSE history_len
    /\ enabled' = {}
    /\ captured' = FALSE
    /\ UNCHANGED <<is_listening, is_paused, transcript>>
    /\ UNCHANGED <<botvars, replyvars, parsevars>>

\* a run with the radio on "Voice"; click: the button that triggered the run
\* ("none": another trigger), one the page showed enabled; heard: what
\* transcribe_chunk does if the run reaches it
RunVoice(click, heard) ==
    /\ click # "none" => input_mode = "Voice" /\ click \in enabled
    /\ LET after == AfterClick(is_listening, is_paused, click)
           capture == after[1] /\ ~after[2]
           text == capture /\ heard \notin {"", "error"}
       IN  /\ text => Len(transcript) < MaxChunks /\ history_len + 2 <= MaxHistory
           /\ ~capture => heard = ""
           /\ input_mode' = "Voice"
           /\ enabled' = Rendered(is_listening, is_paused)
           /\ is_listening' = after[1]
           /\ is_paused' = after[2]
           /\ captured' = capture
           /\ transcript' = IF text THEN Append(transcript, heard) ELSE transcript
           /\ history_len' = IF text THEN history_len + 2 ELSE history_len
    /\ UNCHANGED <<botvars, replyvars, parsevars>>

NextVoice ==
    \/ \E prompted \in BOOLEAN : RunText(prompted)
    \/ \E click \in Buttons \cup {"none"}, heard \in HeardChoices : RunVoice(click, heard)

-----------------------------------------------------------------------------
(* Specifications.                                                         *)

Init == BotInit /\ ReplyInit /\ ParseIdle /\ AppInit

\* the matcher
Spec == Init /\ [][Next]_vars

InitParse ==
    /\ BotInit /\ ReplyInit /\ AppInit
    /\ p_text \in ParseCorpora
    /\ p_raws = RawLines(p_text)
    /\ p_pos = 0
    /\ p_prev = ParseInit
    /\ p_state = ParseInit
    /\ p_out = NotReturned

\* parse_qa on every corpus of ParseCorpora
SpecParse == InitParse /\ [][NextParse]_vars

\* the front end
SpecVoice == Init /\ [][NextVoice]_vars

-----------------------------------------------------------------------------
(* Properties of the matcher (under Spec).                                 *)

\* the items the vector space was fitted on
Items == IF mode = "qa" THEN questions ELSE sentences

\* the list reply reads its return value from
PayloadList == IF mode = "qa" THEN answers ELSE sentences

\* the user text of the last call after "(user_text or "").strip()"
LastText == Strip(OrElse(user_text, <<>>))

LastTokens == Range(simple_analyzer(LastText))

\* the largest entry of sims
BestScore == CHOOSE m \in Range(sims) : \A j \in DOMAIN sims : sims[j] <= m

\* the last user text has no token in common with any item
NoSharedToken ==
    \A i \in DOMAIN Items : LastTokens \cap Range(simple_analyzer(Items[i])) = {}

\* C1: constructing a matcher never raises, whatever the corpus text, and
\* the fitted vector space has a non-empty vocabulary.
ConstructNeverFails ==
    status # "init" => status = "ok" /\ vocabulary # {}

\* C2: reply on a constructed matcher never raises, and what it returns is
\* the payload at a valid index (answers[idx] in QA mode, sentences[idx] in
\* sentence mode, 0 <= idx < number of items), the empty-input message or
\* the low-confidence message.
ReplyReturnsPayloadOrFallback ==
    calls > 0 =>
        /\ result.kind = "return"
        /\ \/ result.v = EmptyInputMessage
           \/ result.v = LowConfidenceMessage
           \/ /\ 0 <= idx
              /\ idx < Len(Items)
              /\ Len(PayloadList) = Len(Items)
              /\ result.v = PayloadList[idx + 1]

ReplyReturnsSecondAnswer ==
    /\ calls > 0
    /\ mode = "qa"
    /\ idx = 1
    /\ result = [kind |-> "return", v |-> answers[2]]
    /\ answers[2] # answers[1]

\* C3: for a user text that is not empty after trimming, reply returns the
\* low-confidence message exactly when the largest similarity over all items
\* is below 0.10 and the payload at the winning index otherwise; a text that
\* shares no token with any item scores 0 everywhere and gets the
\* low-confidence message.
LowConfidenceIffBelowThreshold ==
    calls > 0 /\ LastText # <<>> =>
        /\ scored
        /\ DOMAIN sims = DOMAIN Items
        /\ result.kind = "return"
        /\ (result.v = LowConfidenceMessage) <=> (BestScore < Threshold)
        /\ BestScore >= Threshold =>
               sims[idx + 1] = BestScore /\ result.v = PayloadList[idx + 1]
        /\ NoSharedToken =>
               /\ \A j \in DOMAIN sims : sims[j] = 0
               /\ result.v = LowConfidenceMessage

UnrelatedTextGetsLowConfidence ==
    /\ calls > 0
    /\ LastTokens # {}
    /\ Len(Items) >= 2
    /\ NoSharedToken
    /\ result = [kind |-> "return", v |-> LowConfidenceMessage]

\* C4: when parsing yields no Q/A pair the matcher is in sentence mode with
\* at least one item, and for an empty or whitespace-only corpus the sentence
\* list is exactly the placeholder "I have no data yet.".
NoPairsMeansSentencesWithPlaceholder ==
    status # "init" /\ parse_qa(corpus_text)[1] = <<>> =>
        /\ mode = "sentences"
        /\ Len(sentences) >= 1
        /\ Strip(OrElse(corpus_text, <<>>)) = <<>> => sentences = <<Placeholder>>

\* C6: a user text that is None, empty or whitespace-only gets the fixed
\* message "Say something and I'll try to help!" and nothing is vectorized
\* or scored, in QA mode and in sentence mode.
EmptyInputIsTerminal ==
    calls > 0 /\ LastText = <<>> =>
        /\ result = [kind |-> "return", v |-> EmptyInputMessage]
        /\ ~scored
        /\ sims = <<>>
        /\ idx = -1

BlankInputAnswered ==
    /\ calls > 0
    /\ user_text = Some(<<" ">>)
    /\ mode = "qa"
    /\ result = [kind |-> "return", v |-> EmptyInputMessage]
    /\ ~scored

\* C8: when several items attain the largest similarity, reply selects the
\* lowest such index and returns the payload at that index.
TiesGoToLowestIndex ==
    calls > 0 /\ scored =>
        /\ idx + 1 \in DOMAIN sims
        /\ \A j \in DOMAIN sims :
               /\ sims[j] <= sims[idx + 1]
               /\ j < idx + 1 => sims[j] < sims[idx + 1]
        /\ sims[idx + 1] >= Threshold =>
               result = [kind |-> "return", v |-> PayloadList[idx + 1]]

TieResolvedToFirst ==
    /\ calls > 0
    /\ scored
    /\ sims[idx + 1] >= Threshold
    /\ \E j \in DOMAIN sims :
           /\ j > idx + 1
           /\ sims[j] = sims[idx + 1]
           /\ PayloadList[j] # PayloadList[idx + 1]
    /\ result = [kind |-> "return", v |-> PayloadList[idx + 1]]

\* C9: reply changes nothing of the matcher: after any sequence of reply
\* calls the mode, items, payloads, vocabulary and idf weights are those
\* fixed at construction, and the output is the one a matcher freshly built
\* from the same corpus gives for the same text, whatever was asked before.
ReplyLeavesMatcherFrozen ==
    status = "ok" =>
        LET b == Build(corpus_text) IN
        /\ mode = b.mode
        /\ questions = b.questions
        /\ answers = b.answers
        /\ sentences = b.sentences
        /\ vocabulary = b.vocabulary
        /\ idf = b.idf
        /\ q_matrix = b.q_matrix
        /\ calls > 0 =>
               result = ReplyOn(b.mode, b.answers, b.sentences, b.idf,
                                b.q_matrix, user_text).out

UnknownTokenAskedTwice ==
    /\ status = "ok"
    /\ calls >= 2
    /\ LastTokens \cap vocabulary # {}
    /\ LastTokens \ vocabulary # {}
    /\ result.v = PayloadList[idx + 1]

-----------------------------------------------------------------------------
(* Properties of parse_qa (under SpecParse).                               *)

\* the corpus as the loop sees it: stripped lines, blank ones dropped
SrcLines ==
    SelectSeq([i \in DOMAIN p_raws |-> Strip(p_raws[i])], LAMBDA l : l # <<>>)

QLines(src) == {i \in DOMAIN src : IsQLine(src[i])}

\* the position of the next Q: line after i, or one past the end
NextQ(src, i) ==
    IF \E j \in (i + 1)..Len(src) : IsQLine(src[j])
    THEN CHOOSE j \in (i + 1)..Len(src) :
             IsQLine(src[j]) /\ \A k \in (i + 1)..(j - 1) : ~IsQLine(src[k])
    ELSE Len(src) + 1

\* the A: lines that follow the Q: line at i before any other Q: line
ALinesOf(src, i) == {j \in (i + 1)..(NextQ(src, i) - 1) : IsALine(src[j])}

\* the Q: lines that get an answer, and the k-th of a set in source order
Answered(src) == {i \in QLines(src) : ALinesOf(src, i) # {}}
Kth(S, k) == CHOOSE i \in S : Cardinality({j \in S : j < i}) = k - 1

SetMin(S) == CHOOSE x \in S : \A y \in S : x <= y
SetMax(S) == CHOOSE x \in S : \A y \in S : y <= x

\* head, then every further part behind one space
RECURSIVE SpaceJoined(_, _)
SpaceJoined(head, parts) ==
    IF parts = <<>> THEN head
    ELSE SpaceJoined(head \o <<" ">> \o Head(parts), Tail(parts))

\* the text after the two-character marker
AfterMarker(line) == Strip(SubSeq(line, 3, Len(line)))

\* the question of the Q: line at i: its text and the lines up to its first A:
QuestionAt(src, i) ==
    SpaceJoined(AfterMarker(src[i]), SubSeq(src, i + 1, SetMin(ALinesOf(src, i)) - 1))

\* the answer following the Q: line at i: the text of the last A: line before
\* the next Q: line and the lines behind it
AnswerAt(src, i) ==
    LET a == SetMax(ALinesOf(src, i)) IN
    SpaceJoined(AfterMarker(src[a]), SubSeq(src, a + 1, NextQ(src, i) - 1))

\* C5: pair alignment: the pairs are the answered Q: lines in source order,
\* and answers[i] is the answer that follows the Q: line of questions[i]
\* before any other Q: line.
PairsAligned ==
    p_out.done =>
        \A src \in {SrcLines} : \A answered \in {Answered(src)} :
            /\ Len(p_out.questions) = Cardinality(answered)
            /\ Len(p_out.answers) = Cardinality(answered)
            /\ \A k \in 1..Cardinality(answered) :
                   /\ p_out.questions[k] = QuestionAt(src, Kth(answered, k))
                   /\ p_out.answers[k] = AnswerAt(src, Kth(answered, k))

TwoPairsParsed ==
    /\ p_out.done
    /\ Len(p_out.questions) = 2
    /\ p_out.questions[1] # p_out.questions[2]
    /\ p_out.answers[1] # p_out.answers[2]

\* the line the last iteration consumed, stripped
LastLine == Strip(p_raws[p_pos])

IsContinuation(line) == line # <<>> /\ ~IsQLine(line) /\ ~IsALine(line)

\* C7: a non-blank line that starts with neither Q: nor A: is appended with
\* one space to the open answer if there is one, otherwise to the open
\* question if there is one, otherwise it changes nothing; a corpus of only
\* such lines yields no pair.
ContinuationAppends ==
    /\ p_pos > 0 /\ IsContinuation(LastLine) =>
           IF p_prev.a.some
           THEN p_state = [p_prev EXCEPT !.a = Some(p_prev.a.v \o <<" ">> \o LastLine)]
           ELSE IF p_prev.q.some
           THEN p_state = [p_prev EXCEPT !.q = Some(p_prev.q.v \o <<" ">> \o LastLine)]
           ELSE p_state = p_prev
    /\ p_out.done /\ (\A i \in DOMAIN SrcLines : IsContinuation(SrcLines[i])) =>
           p_out.questions = <<>> /\ p_out.answers = <<>>

ContinuationJoinedAnswer ==
    /\ p_pos > 0
    /\ IsContinuation(LastLine)
    /\ p_prev.q.some
    /\ p_prev.a.some
    /\ p_state.a = Some(p_prev.a.v \o <<" ">> \o LastLine)
    /\ p_state.q = p_prev.q

-----------------------------------------------------------------------------
(* Properties of the front end (under SpecVoice).                          *)

\* C10: after any sequence of script runs driven by clicks on buttons that
\* were rendered enabled, is_paused is true only while is_listening is true,
\* and a chunk is captured only in a run where is_listening is true and
\* is_paused is false.
PausedOnlyWhileListening ==
    /\ is_paused => is_listening
    /\ captured => is_listening /\ ~is_paused

====
